---------------------------- MODULE Spec2Model ----------------------------
(***************************************************************************)
(* Dispatch runs of the customer-intelligence application: matching,       *)
(* email generation and sending, as done by                                *)
(*   IntelligentProductMatcher.runCompleteWorkflow   (entry "workflow"),   *)
(*   POST /api/ai/send-matched-emails                (entry "matched"),    *)
(*   POST /api/ai/send-emails-with-progress          (entry "progress"),   *)
(*   POST /api/ai/send-cached-emails                 (entry "cached").     *)
(* One behaviour is one run.  Every await of the code is a step boundary:  *)
(* an action is the code that runs between two awaits.                     *)
(*                                                                         *)
(* The components with a state of their own have a specification each:    *)
(*   PreviewSpec  the email preview cache of the server (getCachedEmail,   *)
(*                setCachedEmail) under a clock,                           *)
(*   RequestSpec  the preview-email and send-cached-emails requests that   *)
(*                share the cache, interleaved at their awaits,            *)
(*   StoreSpec    ProductDatabase (addProduct, updateProduct,              *)
(*                deleteProduct, the listings, the backing document),      *)
(*   SharedSpec   the server's and the command-line tool's ProductDatabase *)
(*                on one backing document,                                 *)
(*   ServerSpec   the routes of the server in the order of registration,   *)
(*                its sessions and the authentication middleware.          *)
(***************************************************************************)
EXTENDS Integers, Sequences, FiniteSets, TLC

\* ---- bounds of the model ------------------------------------------------
MaxMatches == 4      \* longest matches list a handler is posted
MaxCustomers == 3    \* longest customers list runCompleteWorkflow is given
MaxBatchSize == 2    \* largest options.batchSize a workflow caller passes
MaxCachedMatches == 2 \* longest matches list send-cached-emails is posted

\* ---- program constants ---------------------------------------------------
DefaultBatchSize == 100   \* options.batchSize || 100
MatchedBatchSize == 3     \* batchSize the send-matched-emails handler passes
ProgressBatchSize == 3    \* const batchSize of the progress handler

VARIABLES
    entry,        \* which entry point this run is
    clientsOk,    \* whether new IntelligentProductMatcher() succeeds (API keys set)
    nInput,       \* customers.length (workflow) or matches.length (handlers)
    pc,           \* position of the run
    matches,      \* the matches array
    emails,       \* the array generatePersonalizedEmails builds and returns
    validEmails,  \* sendEmails: validEmails; handlers: successfulEmails
    batchSize,    \* the chunk size in use
    i,            \* the loop variable i of the chunk loop
    results,      \* sendEmails: results; progress handler: emailResults
    inflight,     \* positions (in validEmails) of sends issued and not settled
    batchResults, \* progress handler: settled values of the chunk's batchPromises
    events,       \* the events written to the progress stream, in order
    closed,       \* res.end() was called on the progress stream
    response,     \* the JSON response or return value of the run
    genCalls,     \* per customer: calls of generateNudgeOptimizedEmail
    sendCalls,    \* per customer: sends handed to the provider
    outcome,      \* per customer: what the provider answered for the email
    chunksRun,    \* chunk phases started
    delays,       \* pacing delays that elapsed between chunks
    cache,        \* customers whose (customer, product) has a fresh preview cache entry
    matchCalls,   \* per customer: calls of chat.completions.create for its match
    generation,   \* per customer: what the two email generators did for its match
    matchDelays,  \* rate-limiting delays that elapsed in matchCustomersToProducts
    \* -- the email preview cache --
    emailPreviewCache, \* the Map: key -> {email, timestamp}
    now,          \* Date.now()
    setLog,       \* the calls of setCachedEmail so far, in order
    lastGet,      \* the call of getCachedEmail just made and what it returned
    requests,     \* the preview-email and send-cached-emails requests, by arrival
    \* -- ProductDatabase --
    products,     \* this.products: the Map, as its entries in insertion order
    document,     \* the JSON document at dbPath: the array it holds, or absent
    lastCall,     \* the latest call of a mutating method and what it returned
    opCount,      \* mutating calls made so far; also the clock of the timestamps
    cli,          \* the ProductDatabase instance of the command-line tool
    sessions,     \* per browser session: whether req.session.authenticated is set
    loginLog,     \* per browser session: its latest login with the admin's
                  \* credentials or logout, whichever came last
    served        \* the request the server handled last and its answer

dispatchVars == << entry, clientsOk, nInput, pc, matches, emails, validEmails,
                   batchSize, i, results, inflight, batchResults, events,
                   closed, response, genCalls, sendCalls, outcome, chunksRun,
                   delays, cache, matchCalls, generation, matchDelays >>

previewVars == << emailPreviewCache, now, setLog, lastGet, requests >>

storeVars == << products, document, lastCall, opCount, cli >>

serverVars == << sessions, loginLog, served >>

vars == << dispatchVars, previewVars, storeVars, serverVars >>

Entries == {"workflow", "matched", "progress", "cached"}

\* ---- helpers -------------------------------------------------------------

\* Math.min
Min(a, b) == IF a <= b THEN a ELSE b

\* Math.ceil(n / c) for n >= 0, c >= 1
Ceil(n, c) == (n + c - 1) \div c

\* Array.prototype.slice(from, to) with 0-based from (inclusive), to (exclusive)
Slice(s, from, to) == SubSeq(s, Min(from, Len(s)) + 1, Min(to, Len(s)))

\* Array.prototype.filter(e => e.success) and filter(e => !e.success)
Successful(s) == SelectSeq(s, LAMBDA e : e.success)
Failed(s) == SelectSeq(s, LAMBDA e : ~e.success)

\* x || d on an error text
OrDefault(x, d) == IF x = "" THEN d ELSE x

\* number of entries of s with success = TRUE
SuccessCount(s) == Len(Successful(s))

NoSummary == [totalMatches |-> 0, emailsGenerated |-> 0, emailsSent |-> 0,
              successfulSends |-> 0, failedSends |-> 0]

NoResponse == [status |-> "none", summary |-> NoSummary]

\* ---- a match as the request body or the matcher gives it -----------------
\* (recommendation: whether the match carries a recommendation object; the
\* failed matches the matcher builds carry none)
InputMatch(c, ok, rec) ==
    IF ok THEN [customer |-> c, success |-> TRUE, error |-> "none",
                recommendation |-> rec]
          ELSE [customer |-> c, success |-> FALSE, error |-> "match_error",
                recommendation |-> rec]

InputMatches(n) ==
    { [c \in 1..n |-> InputMatch(c, f[c], f[c])] : f \in [1..n -> BOOLEAN] }

\* the lists posted to send-cached-emails: a failed match may also be posted
\* with a recommendation
CachedInputMatches(n) ==
    { [c \in 1..n |-> InputMatch(c, f[c], f[c] \/ r[c])] :
        f \in [1..n -> BOOLEAN], r \in [1..n -> BOOLEAN] }

\* ---- the components at rest ---------------------------------------------

\* what getCachedEmail returns for a miss
NoEmail == "null"

\* no call of getCachedEmail was just made
NoGet == [customerId |-> << >>, productId |-> << >>, value |-> NoEmail]

\* the preview cache of a server that was just started
PreviewIdle ==
    /\ emailPreviewCache = << >>
    /\ now = 0
    /\ setLog = << >>
    /\ lastGet = NoGet
    /\ requests = << >>

\* no mutating method of ProductDatabase was called yet
NoCall == [op |-> "none"]

\* the command-line tool is not running
NoCli == [open |-> FALSE, products |-> << >>]

\* a ProductDatabase constructed on a path that held no document: the Map is
\* empty and loadDatabase has written the empty array
StoreIdle ==
    /\ products = << >>
    /\ document = << >>
    /\ lastCall = NoCall
    /\ opCount = 0
    /\ cli = NoCli

\* the browser sessions
SessionIds == { "s1", "s2" }

\* no request was handled yet
NoRequest == [handler |-> "none", session |-> "none"]

\* a server that was just started: no session is stored
ServerIdle ==
    /\ sessions = [s \in SessionIds |-> FALSE]
    /\ loginLog = [s \in SessionIds |-> "none"]
    /\ served = NoRequest

\* no dispatch run is under way
DispatchIdle ==
    /\ entry = "none"
    /\ clientsOk = TRUE
    /\ nInput = 0
    /\ pc = "done"
    /\ matches = << >>
    /\ emails = << >>
    /\ validEmails = << >>
    /\ batchSize = 0
    /\ i = 0
    /\ results = << >>
    /\ inflight = {}
    /\ batchResults = << >>
    /\ events = << >>
    /\ closed = FALSE
    /\ response = NoResponse
    /\ genCalls = << >>
    /\ sendCalls = << >>
    /\ outcome = << >>
    /\ chunksRun = 0
    /\ delays = 0
    /\ cache = {}
    /\ matchCalls = << >>
    /\ generation = << >>
    /\ matchDelays = 0

Init ==
    /\ entry \in Entries
    /\ nInput \in 0..(IF entry = "workflow" THEN MaxCustomers
                      ELSE IF entry = "cached" THEN MaxCachedMatches
                      ELSE MaxMatches)
    /\ clientsOk \in (IF entry = "workflow" THEN {TRUE} ELSE BOOLEAN)
    /\ pc = IF entry = "workflow" THEN "matching" ELSE "start"
    /\ matches \in (IF entry = "workflow" THEN {<< >>}
                    ELSE IF entry = "cached" THEN CachedInputMatches(nInput)
                    ELSE InputMatches(nInput))
    /\ emails = << >>
    /\ validEmails = << >>
    /\ batchSize \in (IF entry = "workflow" THEN 0..MaxBatchSize
                      ELSE IF entry = "matched" THEN {MatchedBatchSize}
                      ELSE IF entry = "progress" THEN {ProgressBatchSize}
                      ELSE {0})
    /\ i = 0
    /\ results = << >>
    /\ inflight = {}
    /\ batchResults = << >>
    /\ events = << >>
    /\ closed = FALSE
    /\ response = NoResponse
    /\ genCalls = [c \in 1..nInput |-> 0]
    /\ sendCalls = [c \in 1..nInput |-> 0]
    /\ outcome = [c \in 1..nInput |-> "none"]
    /\ chunksRun = 0
    /\ delays = 0
    /\ cache \in (IF entry = "cached" THEN SUBSET (1..nInput) ELSE {{}})
    /\ matchCalls = [c \in 1..nInput |-> 0]
    /\ generation = [c \in 1..nInput |-> "none"]
    /\ matchDelays = 0
    /\ PreviewIdle
    /\ StoreIdle
    /\ ServerIdle

\* ---- matching (runCompleteWorkflow step 1) --------------------------------

\* a catch that pushes the failed entry without the error message
MatchEntryWithoutError(c, ok) ==
    [customer |-> c, success |-> ok, error |-> "none", recommendation |-> ok]

\* the entry an iteration pushes for customer c: the match matchSingleCustomer
\* returns when its call resolved (ok), else the entry the catch builds from
\* the error it threw
MatchEntry(c, ok) ==
    IF ok THEN [customer |-> c, success |-> TRUE, error |-> "none",
                recommendation |-> TRUE]
          ELSE [customer |-> c, success |-> FALSE,
                error |-> "AI matching failed", recommendation |-> FALSE]

\* where an iteration goes once its entry is pushed: the await of the delay
\* stands in the try, after matches.push(match); the catch has none
AfterMatch(ok) == IF ok THEN "match_delay" ELSE "matching"

\* an iteration of the loop of matchCustomersToProducts starts: the matching
\* call of the next customer is made and awaited
MatchCall ==
    /\ pc = "matching"
    /\ Len(matches) < nInput
    /\ matchCalls' = [matchCalls EXCEPT ![Len(matches) + 1] = @ + 1]
    /\ pc' = "match_await"
    /\ UNCHANGED << entry, clientsOk, nInput, matches, emails, validEmails,
                    batchSize, i, results, inflight, batchResults, events,
                    closed, response, genCalls, sendCalls, outcome,
                    chunksRun, delays, cache, generation, matchDelays >>
    /\ UNCHANGED << previewVars, storeVars, serverVars >>

\* the matching call returns a match or throws, and a throw becomes a failed
\* match
MatchCustomer ==
    /\ pc = "match_await"
    /\ \E ok \in BOOLEAN :
         /\ matches' = Append(matches, MatchEntry(Len(matches) + 1, ok))
         /\ pc' = AfterMatch(ok)
    /\ UNCHANGED cache
    /\ UNCHANGED << entry, clientsOk, nInput, emails, validEmails,
                    batchSize, i, results, inflight, batchResults, events,
                    closed, response, genCalls, sendCalls, outcome,
                    chunksRun, delays >>
    /\ UNCHANGED << matchCalls, generation, matchDelays >>
    /\ UNCHANGED << previewVars, storeVars, serverVars >>

\* the one second after a successful match has elapsed
MatchDelay ==
    /\ pc = "match_delay"
    /\ matchDelays' = matchDelays + 1
    /\ pc' = "matching"
    /\ UNCHANGED << entry, clientsOk, nInput, matches, emails, validEmails,
                    batchSize, i, results, inflight, batchResults, events,
                    closed, response, genCalls, sendCalls, outcome,
                    chunksRun, delays, cache, matchCalls, generation >>
    /\ UNCHANGED << previewVars, storeVars, serverVars >>

\* the loop of matchCustomersToProducts ends and the matches are returned
MatchingDone ==
    /\ pc = "matching"
    /\ Len(matches) = nInput
    /\ pc' = "generating"
    /\ UNCHANGED cache
    /\ UNCHANGED << entry, clientsOk, nInput, matches, emails, validEmails,
                    batchSize, i, results, inflight, batchResults, events,
                    closed, response, genCalls, sendCalls, outcome,
                    chunksRun, delays >>
    /\ UNCHANGED << matchCalls, generation >>
    /\ UNCHANGED matchDelays
    /\ UNCHANGED << previewVars, storeVars, serverVars >>

\* ---- the two handlers up to generatePersonalizedEmails --------------------

StartHandler ==
    /\ pc = "start"
    /\ IF nInput = 0
       THEN \* !matches || !Array.isArray(matches) || matches.length === 0
            /\ response' = [status |-> "400", summary |-> NoSummary]
            /\ pc' = "done"
            /\ UNCHANGED << events, closed >>
       ELSE IF entry = "progress"
       THEN IF clientsOk
            THEN /\ events' = << "start", "progress" >>
                 /\ pc' = "generating"
                 /\ UNCHANGED << response, closed >>
            ELSE \* the constructor throws inside the inner try
                 /\ events' = << "start", "error" >>
                 /\ closed' = TRUE
                 /\ pc' = "done"
                 /\ UNCHANGED response
       ELSE IF clientsOk
            THEN /\ pc' = IF entry = "cached" THEN "c_loop" ELSE "generating"
                 /\ UNCHANGED << response, events, closed >>
            ELSE /\ response' = [status |-> "500", summary |-> NoSummary]
                 /\ pc' = "done"
                 /\ UNCHANGED << events, closed >>
    /\ UNCHANGED cache
    /\ UNCHANGED << entry, clientsOk, nInput, matches, emails, validEmails,
                    batchSize, i, results, inflight, batchResults, genCalls,
                    sendCalls, outcome, chunksRun, delays >>
    /\ UNCHANGED << matchCalls, generation >>
    /\ UNCHANGED matchDelays
    /\ UNCHANGED << previewVars, storeVars, serverVars >>

\* ---- generatePersonalizedEmails -------------------------------------------

\* the entry pushed for a match that is already failed
PassThrough(match) ==
    [customer |-> match.customer, success |-> FALSE, error |-> match.error,
     mode |-> "none"]

\* a catch that has no template fallback and pushes the failed entry at once
GeneratedWithoutFallback(match, how) ==
    IF how = "ai"
    THEN [customer |-> match.customer, success |-> TRUE, error |-> "none",
          mode |-> "nudge"]
    ELSE [customer |-> match.customer, success |-> FALSE,
          error |-> "nudge_error", mode |-> "none"]

\* the entry pushed for a successful match, by what the two generators did:
\* "ai" the nudge email was generated, "fallback" it threw and the template
\* rendered, "fail" both threw
Generated(match, how) ==
    IF how = "ai"
    THEN [customer |-> match.customer, success |-> TRUE, error |-> "none",
          mode |-> "nudge"]
    ELSE IF how = "fallback"
    THEN [customer |-> match.customer, success |-> TRUE, error |-> "none",
          mode |-> "fallback"]
    ELSE [customer |-> match.customer, success |-> FALSE,
          error |-> "template_error", mode |-> "none"]

\* a catch that calls generateNudgeOptimizedEmail again before the template
NudgeCallsRetrying(how) == IF how = "ai" THEN 1 ELSE 2

\* the calls of generateNudgeOptimizedEmail one iteration makes for a
\* successful match: the one of the try; the catch goes to the template engine
NudgeCalls(how) == 1

\* one iteration of the loop over the matches
GenerateEmail ==
    /\ pc = "generating"
    /\ Len(emails) < Len(matches)
    /\ LET match == matches[Len(emails) + 1] IN
         IF ~match.success
         THEN /\ emails' = Append(emails, PassThrough(match))
              /\ UNCHANGED << genCalls, generation >>
         ELSE \E how \in {"ai", "fallback", "fail"} :
                /\ emails' = Append(emails, Generated(match, how))
                /\ genCalls' = [genCalls EXCEPT
                                   ![match.customer] = @ + NudgeCalls(how)]
                /\ generation' = [generation EXCEPT ![match.customer] = how]
    /\ UNCHANGED cache
    /\ UNCHANGED << entry, clientsOk, nInput, pc, matches, validEmails,
                    batchSize, i, results, inflight, batchResults, events,
                    closed, response, sendCalls, outcome, chunksRun, delays >>
    /\ UNCHANGED matchCalls
    /\ UNCHANGED matchDelays
    /\ UNCHANGED << previewVars, storeVars, serverVars >>

\* ---- sendEmails ------------------------------------------------------------

\* const batchSize = options.batchSize || 100 (0 stands for an absent option)
EffectiveBatchSize(b) == IF b = 0 THEN DefaultBatchSize ELSE b

\* failedEmails.forEach(email => results.push({... success: false ...}))
FailedResults(arg) ==
    [k \in 1..Len(Failed(arg)) |->
        [customer |-> Failed(arg)[k].customer, success |-> FALSE,
         emailId |-> "none",
         error |-> OrDefault(Failed(arg)[k].error, "Email generation failed")]]

\* the result pushed for one entry of batchResult.data.data
EntryResult(email, emailResult) ==
    IF emailResult = "id"
    THEN [customer |-> email.customer, success |-> TRUE,
          emailId |-> "provider_id", error |-> "none"]
    ELSE [customer |-> email.customer, success |-> FALSE, emailId |-> "none",
          error |-> "send_error"]

\* catch: batch.forEach(email => results.push({... 'Batch send failed' ...}))
BatchFailed(batch) ==
    [k \in 1..Len(batch) |->
        [customer |-> batch[k].customer, success |-> FALSE,
         emailId |-> "none", error |-> "batch_failed"]]

\* the replies resendClient.batch.send can give for a batch: a per-message
\* array (of any length, each entry with an id or without), an error object,
\* another shape, or an exception
ArrayReplies(n) ==
    UNION { { [kind |-> "array", data |-> d] : d \in [1..len -> {"id", "err"}] }
            : len \in 0..(n + 1) }

BatchReplies(n) ==
    ArrayReplies(n) \cup { [kind |-> k, data |-> << >>] :
                             k \in {"errobj", "malformed", "throw"} }

\* whether processing the reply throws into the catch of the batch: every
\* reply but an array throws, and an array throws at its first entry that has
\* no email of the batch (batch[index] is undefined)
ReplyThrows(batch, reply) ==
    \/ reply.kind # "array"
    \/ Len(reply.data) > Len(batch)

\* the results one batch adds, in the order they are pushed
ProcessReply(batch, reply) ==
    IF reply.kind = "array"
    THEN [k \in 1..Min(Len(reply.data), Len(batch)) |->
              EntryResult(batch[k], reply.data[k])]
         \o (IF ReplyThrows(batch, reply) THEN BatchFailed(batch) ELSE << >>)
    ELSE BatchFailed(batch)

\* what the provider answered for the k-th email of the batch
BatchOutcome(batch, reply, k) ==
    IF reply.kind = "array"
    THEN IF k <= Len(reply.data)
         THEN (IF reply.data[k] = "id" THEN "id" ELSE "error")
         ELSE "missing"
    ELSE IF reply.kind = "errobj" THEN "error" ELSE "rejected"

\* the batch of the current iteration: validEmails.slice(i, i + batchSize)
CurrentBatch == Slice(validEmails, i, i + EffectiveBatchSize(batchSize))

\* a chunk loop whose step does not advance i
NextIndexStuck(b) == i

\* the step of the chunk loops: i += batchSize
NextIndex(b) == i + b

\* a chunk loop whose condition is i <= validEmails.length
LoopContinuesInclusive(n) == i <= n

\* the condition of the chunk loops: i < validEmails.length
LoopContinues(n) == i < n

\* every chunk holds at least one email, so a run has at most
\* validEmails.length chunk phases: the cap of the counter chunksRun
MaxChunkPhases == Len(validEmails)

\* the value the run hands back once sendEmails has returned rs
WorkflowResponse(rs) ==
    [status |-> "ok",
     summary |-> [customersProcessed |-> nInput,
                  successfulMatches |-> SuccessCount(matches),
                  emailsGenerated |-> SuccessCount(emails),
                  emailsSent |-> SuccessCount(rs)]]

HandlerSummary(rs) ==
    [totalMatches |-> Len(matches),
     emailsGenerated |-> SuccessCount(emails),
     emailsSent |-> Len(rs),
     successfulSends |-> SuccessCount(rs),
     failedSends |-> Len(rs) - SuccessCount(rs)]

MatchedResponse(rs) == [status |-> "200", summary |-> HandlerSummary(rs)]

\* the emails a caller hands to its send phase
SendInput ==
    IF entry = "workflow" THEN emails ELSE Successful(emails)

\* the initial contents of results in the send phase
InitialResults ==
    IF entry = "progress" THEN << >> ELSE FailedResults(SendInput)

\* a zero-valid-emails branch that lacks its return and falls into the loop
AfterNoValidEmailsFallThrough == "p_loop"

\* where the progress handler goes once it has written the error event for
\* zero valid emails: res.end(); return
AfterNoValidEmails == "done"

\* generatePersonalizedEmails returns; the caller runs up to its next await
GenerateDone ==
    /\ pc = "generating"
    /\ Len(emails) = Len(matches)
    /\ validEmails' = Successful(SendInput)
    /\ results' = InitialResults
    /\ IF entry = "workflow"
       THEN IF Len(validEmails') = 0
            THEN /\ response' = WorkflowResponse(results')
                 /\ pc' = "done"
            ELSE /\ pc' = "batch_loop"
                 /\ UNCHANGED response
       ELSE IF entry = "matched"
       THEN IF Len(validEmails') = 0
            THEN /\ response' = [status |-> "400", summary |-> NoSummary]
                 /\ pc' = "done"
            ELSE /\ pc' = "batch_loop"
                 /\ UNCHANGED response
       ELSE /\ UNCHANGED response
            /\ pc' = IF Len(validEmails') = 0 THEN AfterNoValidEmails
                     ELSE "p_loop"
    /\ events' = IF entry # "progress" THEN events
                 ELSE IF Len(validEmails') = 0
                 THEN events \o << "progress", "error" >>
                 ELSE events \o << "progress", "progress" >>
    /\ closed' = (entry = "progress" /\ Len(validEmails') = 0)
    /\ UNCHANGED cache
    /\ UNCHANGED << entry, clientsOk, nInput, matches, emails, batchSize, i,
                    inflight, batchResults, genCalls, sendCalls, outcome,
                    chunksRun, delays >>
    /\ UNCHANGED << matchCalls, generation >>
    /\ UNCHANGED matchDelays
    /\ UNCHANGED << previewVars, storeVars, serverVars >>

\* one iteration starts: the batch is sliced and handed to batch.send
BatchSend ==
    /\ pc = "batch_loop"
    /\ LoopContinues(Len(validEmails))
    /\ chunksRun < MaxChunkPhases
    /\ inflight' = { i + k : k \in 1..Len(CurrentBatch) }
    /\ sendCalls' = [c \in DOMAIN sendCalls |->
                        sendCalls[c] + Cardinality({k \in 1..Len(CurrentBatch) :
                                                    CurrentBatch[k].customer = c})]
    /\ chunksRun' = chunksRun + 1
    /\ pc' = "batch_await"
    /\ UNCHANGED cache
    /\ UNCHANGED << entry, clientsOk, nInput, matches, emails, validEmails,
                    batchSize, i, results, batchResults, events, closed,
                    response, genCalls, outcome, delays >>
    /\ UNCHANGED << matchCalls, generation >>
    /\ UNCHANGED matchDelays
    /\ UNCHANGED << previewVars, storeVars, serverVars >>

\* batch.send settles and the reply is processed, up to the pacing await
BatchReply ==
    /\ pc = "batch_await"
    /\ \E reply \in BatchReplies(Len(CurrentBatch)) :
         /\ results' = results \o ProcessReply(CurrentBatch, reply)
         /\ outcome' = [c \in DOMAIN outcome |->
                IF \E k \in 1..Len(CurrentBatch) : CurrentBatch[k].customer = c
                THEN BatchOutcome(CurrentBatch, reply,
                        CHOOSE k \in 1..Len(CurrentBatch) :
                            CurrentBatch[k].customer = c)
                ELSE outcome[c]]
         /\ IF ~ReplyThrows(CurrentBatch, reply)
               /\ i + EffectiveBatchSize(batchSize) < Len(validEmails)
            THEN /\ pc' = "batch_delay"
                 /\ UNCHANGED i
            ELSE /\ pc' = "batch_loop"
                 /\ i' = NextIndex(EffectiveBatchSize(batchSize))
    /\ inflight' = {}
    /\ UNCHANGED cache
    /\ UNCHANGED << entry, clientsOk, nInput, matches, emails, validEmails,
                    batchSize, batchResults, events, closed, response,
                    genCalls, sendCalls, chunksRun, delays >>
    /\ UNCHANGED << matchCalls, generation >>
    /\ UNCHANGED matchDelays
    /\ UNCHANGED << previewVars, storeVars, serverVars >>

\* the one second between two batches has elapsed
BatchDelay ==
    /\ pc = "batch_delay"
    /\ delays' = delays + 1
    /\ i' = NextIndex(EffectiveBatchSize(batchSize))
    /\ pc' = "batch_loop"
    /\ UNCHANGED cache
    /\ UNCHANGED << entry, clientsOk, nInput, matches, emails, validEmails,
                    batchSize, results, inflight, batchResults, events,
                    closed, response, genCalls, sendCalls, outcome,
                    chunksRun >>
    /\ UNCHANGED << matchCalls, generation >>
    /\ UNCHANGED matchDelays
    /\ UNCHANGED << previewVars, storeVars, serverVars >>

\* the loop ends, sendEmails returns results and the caller answers
SendEmailsReturn ==
    /\ pc = "batch_loop"
    /\ ~LoopContinues(Len(validEmails))
    /\ response' = IF entry = "workflow" THEN WorkflowResponse(results)
                   ELSE MatchedResponse(results)
    /\ pc' = "done"
    /\ UNCHANGED cache
    /\ UNCHANGED << entry, clientsOk, nInput, matches, emails, validEmails,
                    batchSize, i, results, inflight, batchResults, events,
                    closed, genCalls, sendCalls, outcome, chunksRun, delays >>
    /\ UNCHANGED << matchCalls, generation >>
    /\ UNCHANGED matchDelays
    /\ UNCHANGED << previewVars, storeVars, serverVars >>

\* ---- the chunk loop of the progress handler ---------------------------------

\* the value one batchPromise resolves to, by what emails.send did: "id" it
\* resolved with an id, "errobj" it resolved with an error object and no id,
\* "throw" it rejected
ProgressResult(email, out) ==
    IF out = "throw"
    THEN [customer |-> email.customer, success |-> FALSE, emailId |-> "none",
          error |-> "send_error"]
    ELSE [customer |-> email.customer, success |-> TRUE,
          emailId |-> IF out = "id" THEN "provider_id" ELSE "unknown",
          error |-> "none"]

\* what the provider answered, for the outcome of emails.send
SendOutcome(out) ==
    IF out = "id" THEN "id" ELSE IF out = "errobj" THEN "error" ELSE "rejected"

\* positions in successfulEmails of the batch of the current iteration
BatchPositions == { p \in 1..Len(validEmails) : i < p /\ p <= i + batchSize }

\* an iteration that maps over all the remaining emails, not over the batch
IssuedPositionsAll == { p \in 1..Len(validEmails) : i < p }

\* the positions whose sends the iteration starts: batch.map(async ...) runs
\* every callback up to its await of emails.send
IssuedPositions == BatchPositions

\* an iteration starts: the progress event, then every send of the batch
IssueBatch ==
    /\ pc = "p_loop"
    /\ LoopContinues(Len(validEmails))
    /\ chunksRun < MaxChunkPhases
    /\ events' = Append(events, "progress")
    /\ inflight' = IssuedPositions
    /\ sendCalls' = [c \in DOMAIN sendCalls |->
                        sendCalls[c] + Cardinality({p \in IssuedPositions :
                                                    validEmails[p].customer = c})]
    /\ batchResults' = << >>
    /\ chunksRun' = chunksRun + 1
    /\ pc' = "p_await"
    /\ UNCHANGED cache
    /\ UNCHANGED << entry, clientsOk, nInput, matches, emails, validEmails,
                    batchSize, i, results, closed, response, genCalls,
                    outcome, delays >>
    /\ UNCHANGED << matchCalls, generation >>
    /\ UNCHANGED matchDelays
    /\ UNCHANGED << previewVars, storeVars, serverVars >>

\* one send of the batch settles and its callback returns its result
SettleSend ==
    /\ pc = "p_await"
    /\ \E p \in inflight, out \in {"id", "errobj", "throw"} :
         /\ batchResults' = (p :> ProgressResult(validEmails[p], out))
                                @@ batchResults
         /\ outcome' = [outcome EXCEPT ![validEmails[p].customer] =
                                           SendOutcome(out)]
         /\ inflight' = inflight \ {p}
    /\ UNCHANGED cache
    /\ UNCHANGED << entry, clientsOk, nInput, pc, matches, emails,
                    validEmails, batchSize, i, results, events, closed,
                    response, genCalls, sendCalls, chunksRun, delays >>
    /\ UNCHANGED << matchCalls, generation >>
    /\ UNCHANGED matchDelays
    /\ UNCHANGED << previewVars, storeVars, serverVars >>

\* the chunk's results collected last-to-first, not in the order of the batch
AllBatchResultsReversed ==
    [k \in 1..Cardinality(BatchPositions) |->
        batchResults[i + Cardinality(BatchPositions) + 1 - k]]

\* the values of Promise.all(batchPromises), in the order of the batch
AllBatchResults == [k \in 1..Cardinality(BatchPositions) |-> batchResults[i + k]]

\* Promise.all resolves: the results are pushed and the event is written
BatchComplete ==
    /\ pc = "p_await"
    /\ inflight = {}
    /\ results' = results \o AllBatchResults
    /\ events' = Append(events, "batch-complete")
    /\ batchResults' = << >>
    /\ IF i + batchSize < Len(validEmails)
       THEN /\ pc' = "p_delay"
            /\ UNCHANGED i
       ELSE /\ pc' = "p_loop"
            /\ i' = NextIndex(batchSize)
    /\ UNCHANGED cache
    /\ UNCHANGED << entry, clientsOk, nInput, matches, emails, validEmails,
                    batchSize, inflight, closed, response, genCalls,
                    sendCalls, outcome, chunksRun, delays >>
    /\ UNCHANGED << matchCalls, generation >>
    /\ UNCHANGED matchDelays
    /\ UNCHANGED << previewVars, storeVars, serverVars >>

\* the one second between two batches has elapsed
ProgressDelay ==
    /\ pc = "p_delay"
    /\ delays' = delays + 1
    /\ i' = NextIndex(batchSize)
    /\ pc' = "p_loop"
    /\ UNCHANGED cache
    /\ UNCHANGED << entry, clientsOk, nInput, matches, emails, validEmails,
                    batchSize, results, inflight, batchResults, events,
                    closed, response, genCalls, sendCalls, outcome,
                    chunksRun >>
    /\ UNCHANGED << matchCalls, generation >>
    /\ UNCHANGED matchDelays
    /\ UNCHANGED << previewVars, storeVars, serverVars >>

\* the loop ends: the complete event with the summary, then res.end()
ProgressComplete ==
    /\ pc = "p_loop"
    /\ ~LoopContinues(Len(validEmails))
    /\ events' = Append(events, "complete")
    /\ response' = [status |-> "complete", summary |-> HandlerSummary(results)]
    /\ closed' = TRUE
    /\ pc' = "done"
    /\ UNCHANGED cache
    /\ UNCHANGED << entry, clientsOk, nInput, matches, emails, validEmails,
                    batchSize, i, results, inflight, batchResults, genCalls,
                    sendCalls, outcome, chunksRun, delays >>
    /\ UNCHANGED << matchCalls, generation >>
    /\ UNCHANGED matchDelays
    /\ UNCHANGED << previewVars, storeVars, serverVars >>

\* ---- the loop of the send-cached-emails handler -----------------------------

\* the match of the current iteration of for (const match of matches)
CurrentMatch == matches[i + 1]

\* the entry pushed by the catch of an iteration
CachedFailure(match, message) ==
    [customer |-> match.customer, success |-> FALSE, emailId |-> "none",
     error |-> message]

\* the entry pushed when emails.send resolved ("id" with an id, "errobj" with
\* an error object and no id)
CachedSuccess(match, out) ==
    [customer |-> match.customer, success |-> TRUE,
     emailId |-> IF out = "id" THEN "provider_id" ELSE "unknown",
     error |-> "none"]

\* getCachedEmail(customer.id || customer.email, productId) finds a fresh entry
CacheHit(match) == match.customer \in cache

\* an iteration starts: the cache is read, then either the cached email is
\* sent or a new one is generated
CachedIteration ==
    /\ pc = "c_loop"
    /\ i < Len(matches)
    /\ IF ~CurrentMatch.recommendation
       THEN \* match.recommendation.recommendedProduct throws a TypeError
            /\ results' = Append(results,
                                 CachedFailure(CurrentMatch, "type_error"))
            /\ i' = i + 1
            /\ UNCHANGED << pc, sendCalls >>
       ELSE IF CacheHit(CurrentMatch)
       THEN /\ sendCalls' = [sendCalls EXCEPT ![CurrentMatch.customer] = @ + 1]
            /\ pc' = "c_send"
            /\ UNCHANGED << results, i >>
       ELSE /\ pc' = "c_generate"
            /\ UNCHANGED << results, i, sendCalls >>
    /\ UNCHANGED << entry, clientsOk, nInput, matches, emails, validEmails,
                    batchSize, inflight, batchResults, events, closed,
                    response, genCalls, outcome, chunksRun, delays, cache >>
    /\ UNCHANGED << matchCalls, generation >>
    /\ UNCHANGED matchDelays
    /\ UNCHANGED << previewVars, storeVars, serverVars >>

\* generatePersonalizedEmails([match]) returns: the email is cached and sent,
\* or 'Failed to generate email content' is thrown
CachedGenerated ==
    /\ pc = "c_generate"
    /\ \E how \in {"ai", "fallback", "fail"} :
         LET email == IF CurrentMatch.success THEN Generated(CurrentMatch, how)
                      ELSE PassThrough(CurrentMatch)
         IN
         /\ genCalls' = IF CurrentMatch.success
                         THEN [genCalls EXCEPT ![CurrentMatch.customer] =
                                                   @ + NudgeCalls(how)]
                         ELSE genCalls
         /\ generation' = IF CurrentMatch.success
                           THEN [generation EXCEPT
                                    ![CurrentMatch.customer] = how]
                           ELSE generation
         /\ IF email.success
            THEN /\ cache' = cache \cup {CurrentMatch.customer}
                 /\ sendCalls' = [sendCalls EXCEPT
                                     ![CurrentMatch.customer] = @ + 1]
                 /\ pc' = "c_send"
                 /\ UNCHANGED << results, i >>
            ELSE /\ results' = Append(results,
                        CachedFailure(CurrentMatch,
                                      "Failed to generate email content"))
                 /\ i' = i + 1
                 /\ pc' = "c_loop"
                 /\ UNCHANGED << cache, sendCalls >>
    /\ UNCHANGED << entry, clientsOk, nInput, matches, emails, validEmails,
                    batchSize, inflight, batchResults, events, closed,
                    response, outcome, chunksRun, delays >>
    /\ UNCHANGED matchCalls
    /\ UNCHANGED matchDelays
    /\ UNCHANGED << previewVars, storeVars, serverVars >>

\* emails.send settles and the iteration pushes its result
CachedSendSettles ==
    /\ pc = "c_send"
    /\ \E out \in {"id", "errobj", "throw"} :
         /\ results' = Append(results,
                IF out = "throw" THEN CachedFailure(CurrentMatch, "send_error")
                ELSE CachedSuccess(CurrentMatch, out))
         /\ outcome' = [outcome EXCEPT ![CurrentMatch.customer] =
                                           SendOutcome(out)]
    /\ i' = i + 1
    /\ pc' = "c_loop"
    /\ UNCHANGED << entry, clientsOk, nInput, matches, emails, validEmails,
                    batchSize, inflight, batchResults, events, closed,
                    response, genCalls, sendCalls, chunksRun, delays, cache >>
    /\ UNCHANGED << matchCalls, generation >>
    /\ UNCHANGED matchDelays
    /\ UNCHANGED << previewVars, storeVars, serverVars >>

\* the loop ends and the handler answers
CachedDone ==
    /\ pc = "c_loop"
    /\ i >= Len(matches)
    /\ response' = [status |-> "200",
                    summary |-> [totalMatches |-> Len(matches),
                                 successfulSends |-> SuccessCount(results),
                                 failedSends |-> Len(Failed(results))]]
    /\ pc' = "done"
    /\ UNCHANGED << entry, clientsOk, nInput, matches, emails, validEmails,
                    batchSize, i, results, inflight, batchResults, events,
                    closed, genCalls, sendCalls, outcome, chunksRun, delays,
                    cache >>
    /\ UNCHANGED << matchCalls, generation >>
    /\ UNCHANGED matchDelays
    /\ UNCHANGED << previewVars, storeVars, serverVars >>

Next ==
    \/ MatchCall
    \/ MatchCustomer
    \/ MatchDelay
    \/ MatchingDone
    \/ StartHandler
    \/ GenerateEmail
    \/ GenerateDone
    \/ BatchSend
    \/ BatchReply
    \/ BatchDelay
    \/ SendEmailsReturn
    \/ IssueBatch
    \/ SettleSend
    \/ BatchComplete
    \/ ProgressDelay
    \/ ProgressComplete
    \/ CachedIteration
    \/ CachedGenerated
    \/ CachedSendSettles
    \/ CachedDone

Spec == Init /\ [][Next]_vars

\* every external call (matching, generation, send) and every timer settles
FairSpec == Spec /\ WF_vars(Next)

\* ==== the email preview cache ===============================================

\* ---- bounds ------------------------------------------------------------------
MaxSets == 2     \* calls of setCachedEmail in one behaviour
MaxTicks == 2    \* advances of the clock in one behaviour

\* ---- a JavaScript Map, as the sequence of its entries in insertion order ----

\* Map.prototype.has
MapHas(m, k) == \E j \in 1..Len(m) : m[j].key = k

\* Map.prototype.get, for a key the Map has
MapGet(m, k) == m[CHOOSE j \in 1..Len(m) : m[j].key = k].value

\* Map.prototype.set: a key the Map has keeps its place
MapSet(m, k, v) ==
    IF MapHas(m, k)
    THEN [j \in 1..Len(m) |-> IF m[j].key = k THEN [key |-> k, value |-> v]
                                               ELSE m[j]]
    ELSE Append(m, [key |-> k, value |-> v])

\* Map.prototype.delete
MapDelete(m, k) == SelectSeq(m, LAMBDA e : e.key # k)

\* Array.from(m.values())
MapValues(m) == [j \in 1..Len(m) |-> m[j].value]

\* ---- the helpers of the server -------------------------------------------------

\* identifiers are strings, here sequences of characters: customer.id ||
\* customer.email and the productId of a recommendation
CustomerIds == { << "a" >>, << "a", "-", "b" >> }
ProductIds == { << "c" >>, << "b", "-", "c" >> }

\* the emails that are cached
CachedEmails == { "email_1", "email_2" }

\* `${customerId}-${productId}`
getCacheKey(customerId, productId) == customerId \o << "-" >> \o productId

\* 1 hour expiry, in milliseconds
CacheTTL == 60 * 60 * 1000

\* an expiry test that still serves an entry that is exactly one hour old
FreshInclusive(age) == age <= CacheTTL

\* Date.now() - cached.timestamp < 60 * 60 * 1000
Fresh(age) == age < CacheTTL

\* the value getCachedEmail(customerId, productId) returns
getCachedEmail(customerId, productId) ==
    LET key == getCacheKey(customerId, productId) IN
    IF MapHas(emailPreviewCache, key)
          /\ Fresh(now - MapGet(emailPreviewCache, key).timestamp)
    THEN MapGet(emailPreviewCache, key).email
    ELSE NoEmail

\* the steps the clock is seen to make between two calls: a millisecond, or
\* a millisecond less than the expiry time
ClockSteps == { 1, CacheTTL - 1 }

\* clock advances made so far (now is the sum of at most MaxTicks steps)
Ticks == (now \div (CacheTTL - 1)) + (now % (CacheTTL - 1))

\* a call of setCachedEmail
SetCachedEmail ==
    /\ Len(setLog) < MaxSets
    /\ \E customerId \in CustomerIds, productId \in ProductIds,
          email \in CachedEmails :
         /\ emailPreviewCache' =
               MapSet(emailPreviewCache, getCacheKey(customerId, productId),
                      [email |-> email, timestamp |-> now])
         /\ setLog' = Append(setLog, [customerId |-> customerId,
                                      productId |-> productId,
                                      email |-> email, at |-> now])
    /\ lastGet' = NoGet
    /\ UNCHANGED << now, requests >>
    /\ UNCHANGED << dispatchVars, storeVars, serverVars >>

\* a call of getCachedEmail
GetCachedEmail ==
    /\ \E customerId \in CustomerIds, productId \in ProductIds :
         lastGet' = [customerId |-> customerId, productId |-> productId,
                     value |-> getCachedEmail(customerId, productId)]
    /\ UNCHANGED << emailPreviewCache, now, setLog, requests >>
    /\ UNCHANGED << dispatchVars, storeVars, serverVars >>

\* time passes between two calls
ClockAdvances ==
    /\ Ticks < MaxTicks
    /\ \E d \in ClockSteps : now' = now + d
    /\ lastGet' = NoGet
    /\ UNCHANGED << emailPreviewCache, setLog, requests >>
    /\ UNCHANGED << dispatchVars, storeVars, serverVars >>

PreviewInit == PreviewIdle /\ DispatchIdle /\ StoreIdle /\ ServerIdle

PreviewNext ==
    \/ SetCachedEmail
    \/ GetCachedEmail
    \/ ClockAdvances

PreviewSpec == PreviewInit /\ [][PreviewNext]_vars


\* ==== ProductDatabase =========================================================

\* ---- bounds ------------------------------------------------------------------
MaxOps == 3      \* calls of mutating methods in one behaviour

\* the ids the callers use
ProductKeys == { "p1", "p2" }

\* the products handed to addProduct: "" stands for a field that is missing
NewProducts ==
    [ id : ProductKeys \cup { "" }, name : { "n", "" }, type : { "loan", "" },
      status : { "", "draft", "archived" } ]

\* the updates handed to updateProduct (the body of PUT /api/products/:id)
Patches ==
    { [ status |-> s ] : s \in { "draft", "archived" } }
        \cup { [ id |-> k ] : k \in ProductKeys }

\* what getProduct returns for an id the Map does not have
NoProduct == [ null |-> TRUE ]

\* !product.id || !product.name || !product.type is false
ValidProduct(product) ==
    product.id # "" /\ product.name # "" /\ product.type # ""

\* an addProduct that stores every product as active
StampedAlwaysActive(product, t) ==
    [ id |-> product.id, name |-> product.name, type |-> product.type,
      status |-> "active", createdAt |-> t, updatedAt |-> t, deletedAt |-> 0 ]

\* the record addProduct stores, at time t: the product with its timestamps
\* and product.status || 'active' (deletedAt 0: the record has no deletedAt)
Stamped(product, t) ==
    [ id |-> product.id, name |-> product.name, type |-> product.type,
      status |-> IF product.status = "" THEN "active" ELSE product.status,
      createdAt |-> t, updatedAt |-> t, deletedAt |-> 0 ]

\* Object.assign(product, updates), then product.updatedAt, at time t
Assigned(product, updates, t) ==
    [ [ f \in DOMAIN product |->
          IF f \in DOMAIN updates THEN updates[f] ELSE product[f] ]
      EXCEPT !.updatedAt = t ]

\* a soft delete that stamps the record and leaves its status
SoftDeletedKeepsStatus(product, t) ==
    [ product EXCEPT !.deletedAt = t, !.updatedAt = t ]

\* the soft delete of deleteProduct, at time t
SoftDeleted(product, t) ==
    [ product EXCEPT !.status = "inactive", !.deletedAt = t, !.updatedAt = t ]

\* the array saveDatabase writes: JSON.stringify(Array.from(values))
SavedDocument(m) == MapValues(m)

\* loadDatabase: products.forEach(product => this.products.set(product.id,
\* product)), from the empty Map
RECURSIVE LoadInto(_, _)
LoadInto(m, doc) ==
    IF doc = << >> THEN m
    ELSE LoadInto(MapSet(m, Head(doc).id, Head(doc)), Tail(doc))

loadDatabase(doc) == LoadInto(<< >>, doc)

\* getProduct(id): this.products.get(id) || null
getProduct(id) ==
    IF MapHas(products, id) THEN MapGet(products, id) ELSE NoProduct

\* the filters of getProducts: type, status and active ("" and FALSE stand
\* for a filter that is not given; active given means active !== undefined)
Filters ==
    [ type : { "", "loan" },
      status : { "", "draft", "active", "inactive", "archived" },
      active : BOOLEAN ]

\* the three filter steps of getProducts on one record
PassesFilters(p, filters) ==
    /\ filters.type # "" => p.type = filters.type
    /\ filters.status # "" => p.status = filters.status
    /\ filters.active => p.status = "active"

\* getProducts(filters): the stored objects that pass, each shown as the
\* entry of the Map that holds it
getProducts(filters) ==
    SelectSeq(products, LAMBDA e : PassesFilters(e.value, filters))

\* products.filter(p => p.status === s).length
CountStatus(s) == Len(SelectSeq(products, LAMBDA e : e.value.status = s))

\* getStatistics(): total and the counts by status
getStatistics ==
    [ total |-> Len(products), active |-> CountStatus("active"),
      inactive |-> CountStatus("inactive"), draft |-> CountStatus("draft") ]

\* the time new Date() shows in the call being made
CallTime == opCount + 1

\* a call of addProduct; saveOk: whether writeFileSync succeeds
AddProduct ==
    /\ opCount < MaxOps
    /\ \E product \in NewProducts, saveOk \in BOOLEAN :
         LET had == MapHas(products, product.id) IN
         IF ~ValidProduct(product) \/ had
         THEN /\ lastCall' = [ op |-> "add", id |-> product.id,
                               product |-> product, had |-> had,
                               ok |-> FALSE ]
              /\ UNCHANGED << products, document >>
         ELSE /\ products' = MapSet(products, product.id,
                                    Stamped(product, CallTime))
              /\ document' = IF saveOk THEN SavedDocument(products')
                             ELSE document
              /\ lastCall' = [ op |-> "add", id |-> product.id,
                               product |-> product, had |-> had,
                               ok |-> saveOk ]
    /\ opCount' = opCount + 1
    /\ UNCHANGED cli
    /\ UNCHANGED << dispatchVars, previewVars, serverVars >>

\* a call of updateProduct
UpdateProduct ==
    /\ opCount < MaxOps
    /\ \E id \in ProductKeys, updates \in Patches, saveOk \in BOOLEAN :
         LET had == MapHas(products, id) IN
         IF ~had
         THEN /\ lastCall' = [ op |-> "update", id |-> id, had |-> had,
                               ok |-> FALSE ]
              /\ UNCHANGED << products, document >>
         ELSE /\ products' = MapSet(products, id,
                     Assigned(MapGet(products, id), updates, CallTime))
              /\ document' = IF saveOk THEN SavedDocument(products')
                             ELSE document
              /\ lastCall' = [ op |-> "update", id |-> id, had |-> had,
                               ok |-> saveOk ]
    /\ opCount' = opCount + 1
    /\ UNCHANGED cli
    /\ UNCHANGED << dispatchVars, previewVars, serverVars >>

\* a call of deleteProduct
DeleteProduct ==
    /\ opCount < MaxOps
    /\ \E id \in ProductKeys, hardDelete \in BOOLEAN, saveOk \in BOOLEAN :
         LET had == MapHas(products, id) IN
         IF ~had
         THEN /\ lastCall' = [ op |-> "delete", id |-> id, had |-> had,
                               hard |-> hardDelete, ok |-> FALSE ]
              /\ UNCHANGED << products, document >>
         ELSE /\ products' =
                    IF hardDelete THEN MapDelete(products, id)
                    ELSE MapSet(products, id,
                                SoftDeleted(MapGet(products, id), CallTime))
              /\ document' = IF saveOk THEN SavedDocument(products')
                             ELSE document
              /\ lastCall' = [ op |-> "delete", id |-> id, had |-> had,
                               hard |-> hardDelete, ok |-> saveOk ]
    /\ opCount' = opCount + 1
    /\ UNCHANGED cli
    /\ UNCHANGED << dispatchVars, previewVars, serverVars >>

StoreInit == StoreIdle /\ DispatchIdle /\ PreviewIdle /\ ServerIdle

StoreNext ==
    \/ AddProduct
    \/ UpdateProduct
    \/ DeleteProduct

StoreSpec == StoreInit /\ [][StoreNext]_vars

\* ==== properties of dispatch runs ===========================================

\* the run has ended and handed a list of per-recipient results to its caller
RunReturnedResults ==
    pc = "done" /\ response.status \in {"ok", "200", "complete"}

\* the positions of results that report on customer c
Reports(c) == { k \in 1..Len(results) : results[k].customer = c }

\* C1: every dispatch run returns exactly as many per-recipient results as it
\* was given matches: no match is dropped and none is reported twice. Stated
\* for the runs of the progress handler, whose sends are answered one by one.
C1_ResultCountEqualsInput ==
    (RunReturnedResults /\ entry = "progress") =>
        /\ Len(results) = Len(matches)
        /\ \A c \in 1..nInput : Cardinality(Reports(c)) = 1

\* C2 (as claimed): the result at position k belongs to the customer of input
\* match k, here for the runs that report every customer exactly once.
C2_PositionMatchesInput ==
    (RunReturnedResults /\ \A c \in 1..nInput : Cardinality(Reports(c)) = 1) =>
        \A k \in 1..Len(results) : results[k].customer = matches[k].customer

\* the chunk (0-based) that position p of validEmails is sent in
ChunkOf(p, b) == (p - 1) \div b

\* the position in validEmails of the email of customer c (0 when it has none)
PositionOf(c) ==
    IF \E p \in 1..Len(validEmails) : validEmails[p].customer = c
    THEN CHOOSE p \in 1..Len(validEmails) : validEmails[p].customer = c
    ELSE 0

\* the send phase has been entered (validEmails and results are set up)
InSendPhase ==
    pc \in {"batch_loop", "batch_await", "batch_delay", "p_loop", "p_await",
            "p_delay"} \/ RunReturnedResults

\* C2 (amended): input order is kept inside each group of results but not
\* across the groups. sendEmails puts the entries of the failed emails first,
\* in input order, and every send outcome after them, batch by batch; in the
\* progress handler the result at position k belongs to the k-th validly
\* generated email; in the send-cached-emails handler the result at position k
\* belongs to input match k.
C2_OrderWithinGroups ==
    InSendPhase =>
        IF entry = "progress"
        THEN /\ Len(results) <= Len(validEmails)
             /\ \A k \in 1..Len(results) :
                    results[k].customer = validEmails[k].customer
        ELSE IF entry = "cached"
        THEN /\ Len(results) = Len(matches)
             /\ \A k \in 1..Len(results) :
                    results[k].customer = matches[k].customer
        ELSE LET nf == Len(Failed(SendInput)) IN
             /\ Len(results) >= nf
             /\ \A k \in 1..nf :
                    /\ results[k].customer = Failed(SendInput)[k].customer
                    /\ ~results[k].success
             /\ \A k \in (nf + 1)..Len(results) :
                    PositionOf(results[k].customer) > 0
             /\ \A k, l \in (nf + 1)..Len(results) :
                    k < l =>
                      ChunkOf(PositionOf(results[k].customer),
                              EffectiveBatchSize(batchSize))
                        <= ChunkOf(PositionOf(results[l].customer),
                                   EffectiveBatchSize(batchSize))

\* C2 witness: a workflow run returned one result per match, with a failed
\* entry placed before the send outcome of a match that preceded it in input
C2_Witness ==
    /\ RunReturnedResults
    /\ entry = "workflow"
    /\ Len(results) = Len(matches)
    /\ \E k \in 1..Len(results) :
          /\ ~results[k].success
          /\ results[k].error = "AI matching failed"
          /\ results[k].customer > k
          /\ \E l \in (k + 1)..Len(results) :
                results[l].success /\ results[l].customer < results[k].customer

\* C3: a match that is failed at input causes no generation call and no send,
\* and the run's output holds it as a failed item with its original error.
C3_FailedMatchPassedThrough ==
    \A m \in 1..Len(matches) :
        ~matches[m].success =>
            /\ genCalls[matches[m].customer] = 0
            /\ sendCalls[matches[m].customer] = 0
            /\ RunReturnedResults =>
                 \E k \in 1..Len(results) :
                    /\ results[k].customer = matches[m].customer
                    /\ ~results[k].success
                    /\ results[k].error = matches[m].error

\* the customer whose email is at position p of validEmails
CustomerAt(p) == validEmails[p].customer

\* positions p and q of validEmails are sent in the same chunk
SameChunk(p, q) ==
    ChunkOf(p, EffectiveBatchSize(batchSize))
        = ChunkOf(q, EffectiveBatchSize(batchSize))

\* C4: when the send of one email of a chunk fails, every other email of the
\* chunk is reported once, as a success if and only if its own send succeeded.
\* Stated for the runs of the progress handler.
C4_FailureIsolation ==
    (RunReturnedResults /\ entry = "progress") =>
        \A p, q \in 1..Len(validEmails) :
            (p # q /\ SameChunk(p, q) /\ outcome[CustomerAt(p)] # "id") =>
                /\ Cardinality(Reports(CustomerAt(q))) = 1
                /\ \A k \in Reports(CustomerAt(q)) :
                      results[k].success <=> (outcome[CustomerAt(q)] = "id")

\* C5: a run with N valid emails and chunk size C performs exactly ceil(N/C)
\* chunk phases, one after another, whatever the outcome of each chunk: at
\* the head of the loop i/C chunks were run, the sends in flight all belong to
\* the latest chunk, and ceil(N/C) chunks were run when the run ends.
C5_ChunkPhases ==
    LET C == EffectiveBatchSize(batchSize) IN
    entry \in {"workflow", "matched", "progress"} =>
    /\ pc \in {"batch_loop", "p_loop"} =>
          (i % C = 0 /\ chunksRun = i \div C)
    /\ \A p \in inflight : ChunkOf(p, C) = chunksRun - 1
    /\ pc = "done" => chunksRun = Ceil(Len(validEmails), C)

\* C5 witness: a run ended after two or more chunks although the provider
\* call threw for every email of its first chunk
C5_Witness ==
    /\ RunReturnedResults
    /\ chunksRun >= 2
    /\ \A p \in 1..Len(validEmails) :
          ChunkOf(p, EffectiveBatchSize(batchSize)) = 0 =>
              outcome[CustomerAt(p)] = "rejected"

\* C6: in the progress handler a send of a chunk is issued only when every
\* send of the earlier chunks has settled, so at most batchSize sends are in
\* flight.
C6_ChunksDoNotOverlap ==
    entry = "progress" =>
        /\ Cardinality(inflight) <= ProgressBatchSize
        /\ \A q, r \in 1..Len(validEmails) :
              (ChunkOf(r, batchSize) < ChunkOf(q, batchSize)
                  /\ sendCalls[CustomerAt(q)] > 0) =>
                    (r \notin inflight /\ outcome[CustomerAt(r)] # "none")

\* C6 witness: the sends of a second chunk are in flight, a full first chunk
\* having settled with a rejected send in it
C6_Witness ==
    /\ entry = "progress"
    /\ pc = "p_await"
    /\ i = ProgressBatchSize
    /\ inflight # {}
    /\ \E r \in 1..ProgressBatchSize : outcome[CustomerAt(r)] = "rejected"

\* C7: every dispatch run ends, given that every external call and every
\* timer settles: the run reaches its terminal position, and a progress
\* stream that was opened is closed by then.
C7_RunTerminates ==
    <>(pc = "done" /\ ((entry = "progress" /\ events # << >>) => closed))

\* C7 witness: a run of two chunks ended after a generation failure and a
\* rejected send
C7_Witness ==
    /\ pc = "done"
    /\ chunksRun >= 2
    /\ \E m \in 1..Len(emails) : emails[m].error = "template_error"
    /\ \E c \in 1..nInput : outcome[c] = "rejected"

\* the positions of the terminal events written to the progress stream
TerminalEvents ==
    { k \in 1..Len(events) : events[k] \in {"complete", "error"} }

\* C8: a progress stream holds at most one terminal event (complete or
\* error), nothing is written after it, the stream is closed exactly when it
\* holds one, and an error event is written only in a run that attempted no
\* send.
C8_OneTerminalEvent ==
    entry = "progress" =>
        /\ Cardinality(TerminalEvents) <= 1
        /\ \A k \in TerminalEvents : k = Len(events)
        /\ closed <=> (TerminalEvents # {})
        /\ (\E k \in 1..Len(events) : events[k] = "error") =>
              (chunksRun = 0 /\ \A c \in 1..nInput : sendCalls[c] = 0)

\* C8 witness: a run of the progress handler generated no valid email, wrote
\* the error event after its generation calls and closed the stream
C8_Witness ==
    /\ entry = "progress"
    /\ closed
    /\ events[Len(events)] = "error"
    /\ \E c \in 1..nInput : genCalls[c] > 0

\* C9: a result with success = true carries a message id the provider
\* assigned, a result with success = false carries an error text, and an
\* email the provider answered with an error and no id is not reported as a
\* success. Stated for sendEmails and the progress handler.
C9_SuccessCarriesProviderId ==
    entry \in {"workflow", "matched", "progress"} =>
    \A k \in 1..Len(results) :
        /\ results[k].success => results[k].emailId = "provider_id"
        /\ ~results[k].success => results[k].error \notin {"none", ""}
        /\ outcome[results[k].customer] = "error" => ~results[k].success

\* C10: the summary of a handler's run has emailsSent = successfulSends +
\* failedSends and emailsSent = emailsGenerated.
C10_SummaryCounts ==
    (pc = "done" /\ entry \in {"matched", "progress"}
        /\ response.status \in {"200", "complete"}) =>
        /\ response.summary.emailsSent
              = response.summary.successfulSends + response.summary.failedSends
        /\ response.summary.emailsSent = response.summary.emailsGenerated

\* C11: nothing is retried. In one run at most one generation call is made
\* for a match and at most one send is handed to the provider for a
\* customer's email, whatever failed, and a send is made only for a customer
\* whose email was generated or cached.
C11_NothingRetried ==
    \A c \in 1..nInput :
        /\ genCalls[c] <= 1
        /\ sendCalls[c] <= 1
        /\ (genCalls[c] = 1) = (generation[c] # "none")
        /\ (sendCalls[c] = 1 /\ entry # "cached") =>
              generation[c] \in {"ai", "fallback"}

\* C11 witness: a run ended in which the AI generation of a customer's email
\* had failed and the send of the templated email was rejected, with one
\* generation call and one send for that customer
C11_Witness ==
    /\ pc = "done"
    /\ \E c \in 1..nInput :
          /\ generation[c] = "fallback"
          /\ outcome[c] = "rejected"
          /\ genCalls[c] = 1
          /\ sendCalls[c] = 1

\* the caller of generatePersonalizedEmails has its return value
GenerationReturned ==
    /\ entry \in {"workflow", "matched", "progress"}
    /\ pc \notin {"matching", "match_await", "match_delay", "start",
                   "generating"}
    /\ clientsOk

\* C12: generatePersonalizedEmails builds one entry per match, in input
\* order. The entry of a failed match carries the match's error; the entry of
\* a successful match is the AI email when the AI generation succeeded, the
\* templated fallback (success = true) when it failed and the template
\* rendered, and a failed entry with an error text only when both failed. No
\* failure ends the loop: the list returned is as long as the matches.
C12_OneEmailPerMatch ==
    entry \in {"workflow", "matched", "progress"} =>
        /\ Len(emails) <= Len(matches)
        /\ GenerationReturned => Len(emails) = Len(matches)
        /\ \A k \in 1..Len(emails) :
              LET m == matches[k]
                  e == emails[k]
                  how == generation[m.customer]
              IN
              /\ e.customer = m.customer
              /\ ~m.success =>
                    (~e.success /\ e.error = m.error /\ how = "none")
              /\ m.success =>
                    /\ how \in {"ai", "fallback", "fail"}
                    /\ how = "ai" => (e.success /\ e.mode = "nudge")
                    /\ how = "fallback" => (e.success /\ e.mode = "fallback")
                    /\ how = "fail" =>
                          (~e.success /\ e.error \notin {"none", ""})

\* C12 witness: the list was returned with an entry of each kind, the failed
\* generation standing before both successful ones
C12_Witness ==
    /\ GenerationReturned
    /\ \E k1, k2, k3, k4 \in 1..Len(emails) :
          /\ k1 < k2 /\ k1 < k3
          /\ generation[emails[k1].customer] = "fail"
          /\ generation[emails[k2].customer] = "ai"
          /\ generation[emails[k3].customer] = "fallback"
          /\ ~matches[k4].success

\* matchCustomersToProducts has not returned yet
InMatching == pc \in {"matching", "match_await", "match_delay"}

\* C13: matchCustomersToProducts returns one entry per customer, in input
\* order, after one matching call for each; the entry of a customer whose
\* call failed holds the customer, success = false and the error message,
\* and the loop goes on to the remaining customers.
C13_OneMatchPerCustomer ==
    entry = "workflow" =>
        /\ Len(matches) <= nInput
        /\ ~InMatching => Len(matches) = nInput
        /\ \A k \in 1..Len(matches) :
              /\ matches[k].customer = k
              /\ matchCalls[k] = 1
              /\ matches[k].success => matches[k].recommendation
              /\ ~matches[k].success => matches[k].error \notin {"none", ""}
        /\ \A c \in (Len(matches) + 1)..nInput :
              matchCalls[c] =
                  (IF pc = "match_await" /\ c = Len(matches) + 1 THEN 1 ELSE 0)

\* C13 witness: the matches were returned with the entry of a failed call
\* standing before the match of a later customer
C13_Witness ==
    /\ entry = "workflow"
    /\ ~InMatching
    /\ \E k, l \in 1..Len(matches) :
          k < l /\ ~matches[k].success /\ matches[l].success

\* C19: a pacing delay elapses between every two consecutive chunks, whatever
\* the outcome of the earlier chunk, and none after the last chunk: when a
\* chunk is issued as many delays have elapsed as chunks were run before it,
\* and a run ends with one delay less than it ran chunks.
C19_DelayBetweenChunks ==
    entry \in {"workflow", "matched", "progress"} =>
        /\ pc \in {"batch_await", "p_await"} => delays = chunksRun - 1
        /\ (pc = "done" /\ chunksRun >= 1) => delays = chunksRun - 1

\* the group of the result of customer c in the list sendEmails returns: 1
\* when the match of c was failed at input, 2 when the generation of its
\* email failed, 3 when its email was handed to the provider
GroupOf(c) ==
    IF ~matches[c].success THEN 1 ELSE IF ~emails[c].success THEN 2 ELSE 3

\* C20: the list sendEmails returns holds the entries of the matches failed
\* at input, then the entries of the generation failures, then the send
\* outcomes, each group in input order.
C20_ThreeGroups ==
    (RunReturnedResults /\ entry \in {"workflow", "matched"}) =>
        \A k, l \in 1..Len(results) :
            k < l =>
                /\ GroupOf(results[k].customer) <= GroupOf(results[l].customer)
                /\ GroupOf(results[k].customer) = GroupOf(results[l].customer)
                      => results[k].customer <= results[l].customer

\* ==== properties of the preview cache ========================================

\* the calls of setCachedEmail, by their place in setLog, whose key is the
\* key of (customerId, productId)
SetsFor(customerId, productId) ==
    { j \in 1..Len(setLog) :
        getCacheKey(setLog[j].customerId, setLog[j].productId)
            = getCacheKey(customerId, productId) }

\* the latest of them
LatestSet(customerId, productId) ==
    setLog[CHOOSE j \in SetsFor(customerId, productId) :
              \A l \in SetsFor(customerId, productId) : l <= j]

\* C14: a getCachedEmail made less than one hour after the latest
\* setCachedEmail for its key returns the email that call stored, and one
\* made one hour or more after it returns null.
C14_CacheRoundTrip ==
    (lastGet # NoGet /\ SetsFor(lastGet.customerId, lastGet.productId) # {}) =>
        LET latest == LatestSet(lastGet.customerId, lastGet.productId) IN
        /\ now - latest.at < CacheTTL => lastGet.value = latest.email
        /\ now - latest.at >= CacheTTL => lastGet.value = NoEmail

\* C14 witness: a key was set twice with different emails, and a get made a
\* millisecond less than one hour after the second set returned its email
C14_Witness ==
    /\ lastGet # NoGet
    /\ Cardinality(SetsFor(lastGet.customerId, lastGet.productId)) = 2
    /\ setLog[1].email # setLog[2].email
    /\ now - setLog[2].at = CacheTTL - 1
    /\ lastGet.value = setLog[2].email

\* ==== properties of ProductDatabase ===========================================

\* C17: every stored product's status is one of draft, active, inactive, and
\* so the active, inactive and draft counts of getStatistics sum to its total.
C17_StatusInLifecycle ==
    /\ \A j \in 1..Len(products) :
          products[j].value.status \in { "draft", "active", "inactive" }
    /\ getStatistics.active + getStatistics.inactive + getStatistics.draft
          = getStatistics.total

\* C15: after addProduct(P), for a P with id, name and type whose id was not
\* stored, getProduct(P.id) returns P's fields with a creation and an update
\* timestamp, and status active when P gave none; and an addProduct whose id
\* is stored already fails and leaves the Map as it was.
C15_AddThenGet ==
    /\ [](( /\ lastCall.op = "add"
            /\ ValidProduct(lastCall.product)
            /\ ~lastCall.had ) =>
           LET P == lastCall.product
               r == getProduct(P.id)
           IN
           /\ r # NoProduct
           /\ r.id = P.id /\ r.name = P.name /\ r.type = P.type
           /\ r.status = (IF P.status = "" THEN "active" ELSE P.status)
           /\ r.createdAt > 0 /\ r.updatedAt > 0)
    /\ [][( /\ opCount' = opCount + 1
            /\ lastCall'.op = "add"
            /\ lastCall'.had ) =>
           (~lastCall'.ok /\ products' = products)]_vars

\* C15 witness: a draft product was added, then an add with its id was
\* refused
C15_Witness ==
    /\ lastCall.op = "add"
    /\ lastCall.had
    /\ ~lastCall.ok
    /\ getProduct(lastCall.id) # NoProduct
    /\ getProduct(lastCall.id).status = "draft"
    /\ lastCall.product.status = ""

\* the object stored under key id is among those getProducts(filters) returns
Listed(id, filters) ==
    \E j \in 1..Len(getProducts(filters)) : getProducts(filters)[j].key = id

\* C16: after a soft deleteProduct(id) the record is returned by
\* getProducts({status: 'inactive'}) and not by getProducts({active: true});
\* after a hard one it is returned by no listing and getProduct(id) is null;
\* a deleteProduct of an id that is not stored fails.
C16_DeleteListing ==
    lastCall.op = "delete" =>
        /\ ~lastCall.had => ~lastCall.ok
        /\ (lastCall.had /\ ~lastCall.hard) =>
              /\ Listed(lastCall.id,
                        [ type |-> "", status |-> "inactive",
                          active |-> FALSE ])
              /\ ~Listed(lastCall.id,
                         [ type |-> "", status |-> "", active |-> TRUE ])
        /\ (lastCall.had /\ lastCall.hard) =>
              /\ \A filters \in Filters : ~Listed(lastCall.id, filters)
              /\ getProduct(lastCall.id) = NoProduct

\* C16 witness: an active product was soft-deleted beside another that is
\* still listed as active
C16_Witness ==
    /\ lastCall.op = "delete"
    /\ lastCall.had
    /\ ~lastCall.hard
    /\ lastCall.ok
    /\ Len(products) = 2
    /\ Len(getProducts([ type |-> "", status |-> "", active |-> TRUE ])) = 1

\* C18: after every successful mutating call the document holds the records
\* of the Map, and loading it gives the Map again: the same ids with the
\* same records.
C18_DocumentMirrorsStore ==
    (lastCall.op # "none" /\ lastCall.ok) =>
        /\ document = MapValues(products)
        /\ loadDatabase(document) = products

\* the matching calls that were made and have not settled
MatchCallsInFlight ==
    { c \in 1..nInput : c > Len(matches) /\ matchCalls[c] > 0 }

\* C21: in matchCustomersToProducts the matching calls are strictly
\* sequential and a fixed delay elapses between every two consecutive calls,
\* also after a call that failed: never two calls are in flight, and when a
\* call is in flight as many delays have elapsed as calls settled before it.
C21_SequentialWithDelay ==
    entry = "workflow" =>
        /\ Cardinality(MatchCallsInFlight) <= 1
        /\ pc = "match_await" => matchDelays = Len(matches)

\* C25: sendEmails adds exactly one result per email it was given, for every
\* reply of the provider to a batch call: when it returns, results holds as
\* many items as the caller handed emails, and each customer's email is
\* reported once.
C25_OneResultPerEmail ==
    (RunReturnedResults /\ entry \in {"workflow", "matched"}) =>
        /\ Len(results) = Len(SendInput)
        /\ \A k \in 1..Len(SendInput) :
              Cardinality(Reports(SendInput[k].customer)) = 1

\* ==== further properties of the cache helpers ===================================

\* C23: getCachedEmail(c, p) returns only an email that setCachedEmail stored
\* with the same customer identifier c and the same product identifier p, for
\* identifiers that may contain '-': a get that returns an email was preceded
\* by a set of that email for its own pair.
C23_PairsShareNoEntry ==
    (lastGet # NoGet /\ lastGet.value # NoEmail) =>
        \E j \in 1..Len(setLog) :
            /\ setLog[j].customerId = lastGet.customerId
            /\ setLog[j].productId = lastGet.productId
            /\ setLog[j].email = lastGet.value

\* ==== the handlers that use the preview cache ===================================
\* The requests of /api/ai/preview-email and /api/ai/send-cached-emails of one
\* server. A handler runs from one await to the next without interruption,
\* and several requests are under way at a time; they share emailPreviewCache.

\* ---- bounds ------------------------------------------------------------------
MaxRequests == 2   \* requests that arrive in one behaviour
MaxHours == 1      \* expiry times that pass in one behaviour

\* the (customer, product) of the matches that requests carry
RequestMatches ==
    { [customerId |-> << "a" >>, productId |-> << "c" >>],
      [customerId |-> << "a", "-", "b" >>, productId |-> << "c" >>] }

\* the matches arrays of the send-cached-emails requests: two matches of
\* different pairs, in either order
SendCachedInputs ==
    { ms \in RequestMatches \X RequestMatches : ms[1] # ms[2] }

\* a request whose handler was just entered
NewRequest(kind, ms) ==
    [kind |-> kind, matches |-> ms, i |-> 0, pc |-> "start", email |-> NoEmail,
     cached |-> FALSE, status |-> "none"]

\* the match a request is working on
MatchOf(r) == r.matches[r.i + 1]

\* a handler that ignores what getCachedEmail returned
ServedFromCacheNever(cachedEmail) == FALSE

\* if (cachedEmail), if (!email): the cached email is used when there is one
ServedFromCache(cachedEmail) == cachedEmail # NoEmail

\* the Map after setCachedEmail(customerId, productId, email)
setCachedEmail(customerId, productId, email) ==
    MapSet(emailPreviewCache, getCacheKey(customerId, productId),
           [email |-> email, timestamp |-> now])

\* the cache is read for the request's match: the cached email is answered
\* (preview-email) or handed to emails.send (send-cached-emails), or
\* generatePersonalizedEmails([match]) is called and awaited
CacheChecked(r) ==
    LET cachedEmail == getCachedEmail(MatchOf(r).customerId,
                                      MatchOf(r).productId)
    IN
    IF ServedFromCache(cachedEmail)
    THEN IF r.kind = "preview"
         THEN [r EXCEPT !.pc = "done", !.email = cachedEmail,
                        !.cached = TRUE, !.status = "200"]
         ELSE [r EXCEPT !.pc = "sending", !.email = cachedEmail,
                        !.cached = TRUE]
    ELSE [r EXCEPT !.pc = "generating", !.email = NoEmail, !.cached = FALSE]

\* the head of for (const match of matches): the next iteration starts, or the
\* handler answers with the results
NextIteration(r) ==
    IF r.i < Len(r.matches) THEN CacheChecked(r)
    ELSE [r EXCEPT !.pc = "done", !.status = "200", !.email = NoEmail,
                   !.cached = FALSE]

\* a preview-email request arrives with a valid match
PreviewEmailRequest ==
    /\ Len(requests) < MaxRequests
    /\ \E m \in RequestMatches :
         requests' = Append(requests,
                            CacheChecked(NewRequest("preview", << m >>)))
    /\ UNCHANGED << emailPreviewCache, now, setLog, lastGet >>
    /\ UNCHANGED << dispatchVars, storeVars, serverVars >>

\* a send-cached-emails request arrives with a non-empty array of matches
SendCachedRequest ==
    /\ Len(requests) < MaxRequests
    /\ \E ms \in SendCachedInputs :
         requests' = Append(requests, NextIteration(NewRequest("send", ms)))
    /\ UNCHANGED << emailPreviewCache, now, setLog, lastGet >>
    /\ UNCHANGED << dispatchVars, storeVars, serverVars >>

\* generatePersonalizedEmails([match]) returns to a request: a successful
\* email is cached and answered or sent; without one the preview is answered
\* 500 and the iteration of send-cached-emails throws into its catch
GenerationReturns ==
    /\ \E k \in 1..Len(requests), email \in CachedEmails \cup { NoEmail } :
         LET r == requests[k] IN
         /\ r.pc = "generating"
         /\ IF email # NoEmail
            THEN /\ emailPreviewCache' =
                       setCachedEmail(MatchOf(r).customerId,
                                      MatchOf(r).productId, email)
                 /\ requests' = [requests EXCEPT ![k] =
                       IF r.kind = "preview"
                       THEN [r EXCEPT !.pc = "done", !.email = email,
                                      !.status = "200"]
                       ELSE [r EXCEPT !.pc = "sending", !.email = email]]
            ELSE /\ UNCHANGED emailPreviewCache
                 /\ requests' = [requests EXCEPT ![k] =
                       IF r.kind = "preview"
                       THEN [r EXCEPT !.pc = "done", !.status = "500"]
                       ELSE NextIteration([r EXCEPT !.i = @ + 1])]
    /\ UNCHANGED << now, setLog, lastGet >>
    /\ UNCHANGED << dispatchVars, storeVars, serverVars >>

\* resendClient.emails.send settles for a request: the iteration pushes its
\* result and the loop goes on
SendSettles ==
    /\ \E k \in 1..Len(requests) :
         /\ requests[k].pc = "sending"
         /\ requests' = [requests EXCEPT ![k] =
               NextIteration([requests[k] EXCEPT !.i = @ + 1])]
    /\ UNCHANGED << emailPreviewCache, now, setLog, lastGet >>
    /\ UNCHANGED << dispatchVars, storeVars, serverVars >>

\* the expiry time of the cache passes between two steps of the handlers
HourPasses ==
    /\ now < MaxHours * CacheTTL
    /\ now' = now + CacheTTL
    /\ UNCHANGED << emailPreviewCache, setLog, lastGet, requests >>
    /\ UNCHANGED << dispatchVars, storeVars, serverVars >>

RequestInit == PreviewIdle /\ DispatchIdle /\ StoreIdle /\ ServerIdle

RequestNext ==
    \/ PreviewEmailRequest
    \/ SendCachedRequest
    \/ GenerationReturns
    \/ SendSettles
    \/ HourPasses

RequestSpec == RequestInit /\ [][RequestNext]_vars

\* ==== properties of the handlers that use the preview cache =====================

\* the Map holds an entry younger than one hour under the key of match m
HoldsFresh(m) ==
    \E j \in 1..Len(emailPreviewCache) :
        /\ emailPreviewCache[j].key = getCacheKey(m.customerId, m.productId)
        /\ now - emailPreviewCache[j].value.timestamp < CacheTTL

\* the email of that entry
EntryEmail(m) ==
    emailPreviewCache[CHOOSE j \in 1..Len(emailPreviewCache) :
        emailPreviewCache[j].key = getCacheKey(m.customerId, m.productId)
    ].value.email

\* in this step the handler of request k comes to a match of its request
ComesToMatch(k) ==
    /\ k \in 1..Len(requests')
    /\ requests'[k].i < Len(requests'[k].matches)
    /\ k \in 1..Len(requests) => requests'[k].i # requests[k].i

\* C22: when the preview cache holds an entry younger than one hour for the
\* (customer, product) of a match, the preview-email and the
\* send-cached-emails handler make no generation call for the match and
\* answer, respectively send, exactly the cached email.
C22_FreshEntryIsServed ==
    [][ \A k \in 1..Len(requests') :
          (ComesToMatch(k) /\ HoldsFresh(MatchOf(requests'[k]))) =>
              /\ requests'[k].pc # "generating"
              /\ requests'[k].cached
              /\ requests'[k].email = EntryEmail(MatchOf(requests'[k]))
              /\ requests'[k].kind = "preview" =>
                    requests'[k].pc = "done" /\ requests'[k].status = "200"
              /\ requests'[k].kind = "send" => requests'[k].pc = "sending"
      ]_vars

\* C22 witness: a send-cached-emails request is sending the email that a
\* preview-email request generated and cached, without generating one itself
C22_Witness ==
    \E j, k \in 1..Len(requests) :
        /\ requests[j].kind = "preview"
        /\ requests[j].status = "200"
        /\ ~requests[j].cached
        /\ requests[k].kind = "send"
        /\ requests[k].pc = "sending"
        /\ requests[k].cached
        /\ MatchOf(requests[k]) = MatchOf(requests[j])
        /\ requests[k].email = requests[j].email

\* C24: two requests for the same (customer, product) that overlap in time
\* and start with no fresh entry for the pair cause at most one generation
\* for the pair: never are two requests both awaiting a generation for the
\* same pair.
C24_OneGenerationPerPair ==
    \A j, k \in 1..Len(requests) :
        (j # k /\ requests[j].pc = "generating"
               /\ requests[k].pc = "generating") =>
            MatchOf(requests[j]) # MatchOf(requests[k])

\* ==== further properties of ProductDatabase =====================================

\* C26: whenever addProduct, updateProduct or deleteProduct returns false, for
\* a validation error, a duplicate id, an absent id or a failed write of the
\* document, the Map is exactly as it was before the call.
C26_FailedCallChangesNothing ==
    [][ (opCount' # opCount /\ ~lastCall'.ok) => products' = products ]_vars

\* C27: every entry of the Map is keyed by its record's own id, after any
\* sequence of addProduct, updateProduct (with any patch, also one that names
\* id) and deleteProduct, so no two stored records have the same id.
C27_KeyIsRecordId ==
    /\ \A j \in 1..Len(products) : products[j].key = products[j].value.id
    /\ \A j, k \in 1..Len(products) :
          products[j].value.id = products[k].value.id => j = k

\* ==== two ProductDatabase instances on one document =============================
\* The web server and the command-line tool each construct a ProductDatabase
\* with the default path: products and cli.products are their Maps, document
\* is the file both write.

\* the products the command-line tool generates and adds
CliProducts ==
    [ id : ProductKeys, name : { "n" }, type : { "loan" }, status : { "" } ]

\* the command-line tool starts: its constructor loads the document
CliStart ==
    /\ ~cli.open
    /\ cli' = [open |-> TRUE, products |-> loadDatabase(document)]
    /\ UNCHANGED << products, document, lastCall, opCount >>
    /\ UNCHANGED << dispatchVars, previewVars, serverVars >>

\* the command-line tool exits
CliExit ==
    /\ cli.open
    /\ cli' = NoCli
    /\ UNCHANGED << products, document, lastCall, opCount >>
    /\ UNCHANGED << dispatchVars, previewVars, serverVars >>

\* the generate command: this.database.addProduct(product)
CliAddProduct ==
    /\ cli.open
    /\ opCount < MaxOps
    /\ \E product \in CliProducts, saveOk \in BOOLEAN :
         LET had == MapHas(cli.products, product.id) IN
         IF had
         THEN /\ lastCall' = [ op |-> "cli_add", id |-> product.id,
                               had |-> had, ok |-> FALSE ]
              /\ UNCHANGED << cli, document >>
         ELSE /\ cli' = [cli EXCEPT !.products =
                            MapSet(@, product.id, Stamped(product, CallTime))]
              /\ document' = IF saveOk THEN SavedDocument(cli'.products)
                             ELSE document
              /\ lastCall' = [ op |-> "cli_add", id |-> product.id,
                               had |-> had, ok |-> saveOk ]
    /\ opCount' = opCount + 1
    /\ UNCHANGED products
    /\ UNCHANGED << dispatchVars, previewVars, serverVars >>

\* the delete command: this.database.deleteProduct(productId, hardDelete)
CliDeleteProduct ==
    /\ cli.open
    /\ opCount < MaxOps
    /\ \E id \in ProductKeys, hardDelete \in BOOLEAN, saveOk \in BOOLEAN :
         LET had == MapHas(cli.products, id) IN
         IF ~had
         THEN /\ lastCall' = [ op |-> "cli_delete", id |-> id, had |-> had,
                               hard |-> hardDelete, ok |-> FALSE ]
              /\ UNCHANGED << cli, document >>
         ELSE /\ cli' = [cli EXCEPT !.products =
                    IF hardDelete THEN MapDelete(@, id)
                    ELSE MapSet(@, id, SoftDeleted(MapGet(@, id), CallTime))]
              /\ document' = IF saveOk THEN SavedDocument(cli'.products)
                             ELSE document
              /\ lastCall' = [ op |-> "cli_delete", id |-> id, had |-> had,
                               hard |-> hardDelete, ok |-> saveOk ]
    /\ opCount' = opCount + 1
    /\ UNCHANGED products
    /\ UNCHANGED << dispatchVars, previewVars, serverVars >>

SharedInit == StoreIdle /\ DispatchIdle /\ PreviewIdle /\ ServerIdle

SharedNext ==
    \/ AddProduct
    \/ UpdateProduct
    \/ DeleteProduct
    \/ CliStart
    \/ CliExit
    \/ CliAddProduct
    \/ CliDeleteProduct

SharedSpec == SharedInit /\ [][SharedNext]_vars

\* the calls of the server's instance, and those of the command-line tool's
ServerOps == { "add", "update", "delete" }
CliOps == { "cli_add", "cli_delete" }

\* C28: with two ProductDatabase instances on the same path, a product that
\* was added successfully through one instance is still in the document after
\* the other instance makes a successful mutating call (other than a hard
\* delete of that product). Stated for a call of one instance that follows an
\* add of the other.
C28_AddSurvivesOtherInstance ==
    [][ ( /\ opCount' # opCount
          /\ lastCall.op \in { "add", "cli_add" }
          /\ lastCall.ok
          /\ lastCall'.ok
          /\ lastCall.op = "add" => lastCall'.op \in CliOps
          /\ lastCall.op = "cli_add" => lastCall'.op \in ServerOps
          /\ ~(lastCall'.op \in { "delete", "cli_delete" }
                 /\ lastCall'.id = lastCall.id /\ lastCall'.hard) )
        => \E j \in 1..Len(document') : document'[j].id = lastCall.id ]_vars

\* ==== the routes of the server and its authentication ===========================
\* A request is handled by the first entry of the application's stack, in
\* the order of registration, that answers it. A path is the sequence of its
\* segments: << "api", "products" >> is /api/products and << >> is /.

\* the password generated at startup, and what else a client may type
ADMIN_PASSWORD == "generated"
Usernames == { "admin", "guest" }
Passwords == { ADMIN_PASSWORD, "guess" }

\* the paths that clients ask for
RequestPaths ==
    { << >>, << "login" >>, << "loginx" >>, << "LOGIN" >>, << "logout" >>,
      << "api", "auth-status" >>, << "offer-accepted" >>,
      << "api", "track-offer-acceptance" >>, << "css", "app.css" >>,
      << "customers" >>, << "api", "customers" >>, << "API", "customers" >>,
      << "api", "products" >>, << "api", "products", "search" >>,
      << "api", "products", "stats" >>, << "api", "products", "p1" >>,
      << "api", "ai", "preview-email" >>, << "nowhere" >> }

Methods == { "GET", "POST" }

\* String.prototype.toLowerCase on a segment
Lower(seg) ==
    IF seg = "API" THEN "api" ELSE IF seg = "LOGIN" THEN "login" ELSE seg

\* String.prototype.startsWith on a segment, for the prefixes the server tests
SegmentStartsWith(seg, prefix) ==
    seg = prefix \/ (prefix = "login" /\ seg = "loginx")

\* the stack of the application in the order of registration: the routes of
\* the paths above, the authentication middleware and the static mounts
Stack ==
    << [kind |-> "route", method |-> "GET", path |-> << "login" >>,
        handler |-> "loginPage"],
       [kind |-> "route", method |-> "POST", path |-> << "login" >>,
        handler |-> "login"],
       [kind |-> "route", method |-> "POST", path |-> << "logout" >>,
        handler |-> "logout"],
       [kind |-> "route", method |-> "GET",
        path |-> << "api", "auth-status" >>, handler |-> "authStatus"],
       [kind |-> "route", method |-> "GET", path |-> << "offer-accepted" >>,
        handler |-> "offerAccepted"],
       [kind |-> "route", method |-> "POST",
        path |-> << "api", "track-offer-acceptance" >>,
        handler |-> "trackOfferAcceptance"],
       [kind |-> "auth", method |-> "ALL", path |-> << >>,
        handler |-> "requireAuth"],
       [kind |-> "static", method |-> "GET", path |-> << "css" >>,
        handler |-> "static"],
       [kind |-> "route", method |-> "GET", path |-> << >>,
        handler |-> "index"],
       [kind |-> "route", method |-> "GET", path |-> << "customers" >>,
        handler |-> "customersPage"],
       [kind |-> "route", method |-> "GET", path |-> << "api", "customers" >>,
        handler |-> "customers"],
       [kind |-> "route", method |-> "GET", path |-> << "api", "products" >>,
        handler |-> "products"],
       [kind |-> "route", method |-> "GET",
        path |-> << "api", "products", ":id" >>, handler |-> "productById"],
       [kind |-> "route", method |-> "GET",
        path |-> << "api", "products", "search" >>,
        handler |-> "searchProducts"],
       [kind |-> "route", method |-> "GET",
        path |-> << "api", "products", "stats" >>,
        handler |-> "productStats"],
       [kind |-> "route", method |-> "POST",
        path |-> << "api", "ai", "preview-email" >>,
        handler |-> "previewEmail"] >>

\* the route handlers registered after the authentication middleware
ProtectedHandlers ==
    { "index", "customersPage", "customers", "products", "productById",
      "searchProducts", "productStats", "previewEmail" }

\* a segment of a route's path matches a segment of the request's path: a
\* parameter matches any segment, and routing ignores case
SegmentMatches(pattern, seg) == pattern = ":id" \/ pattern = Lower(seg)

\* a route answers the request: same method, and the whole path matches
RouteMatches(route, method, path) ==
    /\ route.method = method
    /\ Len(route.path) = Len(path)
    /\ \A j \in 1..Len(path) : SegmentMatches(route.path[j], path[j])

\* app.use(prefix, express.static(...)) answers a GET below its prefix
MountMatches(mount, method, path) ==
    /\ method = "GET"
    /\ Len(path) > Len(mount.path)
    /\ \A j \in 1..Len(mount.path) : mount.path[j] = Lower(path[j])

\* the test of the authentication middleware that lets a request pass
\* unchecked: login, logout, offer acceptance and static files
SkipsAuthentication(path) ==
    \/ Len(path) >= 1 /\ SegmentStartsWith(path[1], "login")
    \/ path = << "logout" >>
    \/ Len(path) >= 1 /\ SegmentStartsWith(path[1], "offer-accepted")
    \/ /\ Len(path) >= 2
       /\ path[1] = "api"
       /\ SegmentStartsWith(path[2], "track-offer-acceptance")
    \/ Len(path) >= 2 /\ path[1] \in { "css", "js", "images" }

\* req.path.startsWith('/api/')
IsApiPath(path) == Len(path) >= 2 /\ path[1] = "api"

\* what requireAuth answers to a session that is not authenticated
Denied(path) ==
    IF IsApiPath(path)
    THEN [handler |-> "requireAuth", status |-> "401", location |-> "none"]
    ELSE [handler |-> "requireAuth", status |-> "302", location |-> "/login"]

\* a login that compares the username only
CredentialsMatchUsernameOnly(username, password) == username = "admin"

\* username === AUTH_CREDENTIALS.username && password ===
\* AUTH_CREDENTIALS.password
CredentialsMatch(username, password) ==
    username = "admin" /\ password = ADMIN_PASSWORD

\* the answer of a handler that runs
Answered(handler, username, password) ==
    IF handler = "login"
    THEN [handler |-> handler, status |-> "302",
          location |-> IF CredentialsMatch(username, password)
                       THEN "/" ELSE "/login?error=1"]
    ELSE IF handler = "logout"
    THEN [handler |-> handler, status |-> "302", location |-> "/login"]
    ELSE [handler |-> handler, status |-> "handled", location |-> "none"]

\* the request goes down the stack from entry k on; authenticated is
\* req.session.authenticated
RECURSIVE Handle(_, _, _, _, _, _)
Handle(k, method, path, authenticated, username, password) ==
    IF k > Len(Stack)
    THEN [handler |-> "none", status |-> "404", location |-> "none"]
    ELSE IF Stack[k].kind = "auth"
    THEN IF SkipsAuthentication(path) \/ authenticated
         THEN Handle(k + 1, method, path, authenticated, username, password)
         ELSE Denied(path)
    ELSE IF Stack[k].kind = "static"
    THEN IF MountMatches(Stack[k], method, path)
         THEN Answered(Stack[k].handler, username, password)
         ELSE Handle(k + 1, method, path, authenticated, username, password)
    ELSE IF RouteMatches(Stack[k], method, path)
    THEN Answered(Stack[k].handler, username, password)
    ELSE Handle(k + 1, method, path, authenticated, username, password)

\* the request posts the login form
IsLoginForm(method, path) ==
    method = "POST" /\ Len(path) = 1 /\ Lower(path[1]) = "login"

\* a request of a browser session is handled; a login form carries a
\* username and a password
Request ==
    /\ \E s \in SessionIds, method \in Methods, path \in RequestPaths,
          username \in Usernames, password \in Passwords :
         /\ ~IsLoginForm(method, path) =>
               username = "guest" /\ password = "guess"
         /\ LET answer == Handle(1, method, path, sessions[s], username,
                                 password)
            IN
            /\ served' = [session |-> s, method |-> method, path |-> path,
                          authenticated |-> sessions[s],
                          handler |-> answer.handler, status |-> answer.status,
                          location |-> answer.location]
            /\ sessions' =
                  IF answer.handler = "login"
                       /\ CredentialsMatch(username, password)
                  THEN [sessions EXCEPT ![s] = TRUE]
                  ELSE IF answer.handler = "logout"
                  THEN [sessions EXCEPT ![s] = FALSE]
                  ELSE sessions
            /\ loginLog' =
                  IF IsLoginForm(method, path)
                       /\ username = "admin" /\ password = ADMIN_PASSWORD
                  THEN [loginLog EXCEPT ![s] = "login"]
                  ELSE IF method = "POST" /\ path = << "logout" >>
                  THEN [loginLog EXCEPT ![s] = "logout"]
                  ELSE loginLog
    /\ UNCHANGED << dispatchVars, previewVars, storeVars >>

\* the cookie of a session reaches its maxAge and the session is gone
SessionExpires ==
    /\ \E s \in SessionIds :
         /\ sessions[s]
         /\ sessions' = [sessions EXCEPT ![s] = FALSE]
    /\ UNCHANGED << loginLog, served >>
    /\ UNCHANGED << dispatchVars, previewVars, storeVars >>

ServerInit == ServerIdle /\ DispatchIdle /\ PreviewIdle /\ StoreIdle

ServerNext ==
    \/ Request
    \/ SessionExpires

ServerSpec == ServerInit /\ [][ServerNext]_vars

\* ==== properties of the routes and the authentication ===========================

\* the paths that are open to everyone: login, logout, auth-status,
\* offer-accepted, offer-acceptance tracking and the static assets
PublicPath(path) ==
    \/ Len(path) >= 1 /\ SegmentStartsWith(Lower(path[1]), "login")
    \/ path = << "logout" >>
    \/ path = << "api", "auth-status" >>
    \/ Len(path) >= 1 /\ path[1] = "offer-accepted"
    \/ path = << "api", "track-offer-acceptance" >>
    \/ Len(path) >= 2 /\ path[1] \in { "css", "js", "images" }

C30_SearchAndStatsReachable ==
    (served # NoRequest /\ served.method = "GET" /\ served.authenticated) =>
        /\ served.path = << "api", "products", "search" >>
              => served.handler = "searchProducts"
        /\ served.path = << "api", "products", "stats" >>
              => served.handler = "productStats"

=============================================================================
